---------------------------- MODULE Spec2Model ----------------------------
(***************************************************************************)
(* FileSplitter (BaseMax/filesplitter): the Size Parser (parseSize) and    *)
(* the Split Engine (main, splitFile, createNewPart) of both variants of   *)
(* the program: src/main.go (ReadString, no pattern, no quiet flag) and    *)
(* src/unnamed/part_000 (ReadSlice, pattern, quiet flag).                  *)
(*                                                                         *)
(* Byte strings are sequences of one-character strings.  The split engine  *)
(* is written as operators on a record of splitFile's locals and of the    *)
(* file system it acts on, so that a whole run can also be evaluated as a  *)
(* function of its configuration (the comparison of two runs).             *)
(***************************************************************************)
EXTENDS Integers, Sequences, FiniteSets, TLC

(***************************************************************************)
(* Bounds of the model.                                                    *)
(***************************************************************************)
\* longest input file, in bytes
MaxLen == 4
\* longest enumerated -size string, in characters
MaxSizeLen == 4

\* src/unnamed/part_000:19 sets bufSize to 128*1024; the model scales the
\* buffer of the reader and of the writer down so that a line longer than the
\* buffer fits in MaxLen bytes.
bufSize == 2

VARIABLES
    pc,         \* "main", "splitFile", "loop", "finish", "exit", or "parse"
    exitCode,   \* -1 while the process runs, then the process's exit code
    cause,      \* why main stopped before splitFile, "none" otherwise
    args,       \* the arguments of splitFile
    input,      \* the content of the input file
    sizeFlag,   \* the value of the -size flag
    sizeRes,    \* what parseSize returned for sizeFlag
    st          \* splitFile's locals, the reader, the file system, the log

vars == <<pc, exitCode, cause, args, input, sizeFlag, sizeRes, st>>

(***************************************************************************)
(* Strings.                                                                *)
(***************************************************************************)
Digits == <<"0", "1", "2", "3", "4", "5", "6", "7", "8", "9">>

IsDigit(ch) == \E i \in 1..10 : Digits[i] = ch

DigitVal(ch) == (CHOOSE i \in 1..10 : Digits[i] = ch) - 1

\* unicode.IsSpace on the characters the model uses
IsSpace(ch) == ch \in {" ", "\t", "\n", "\r"}

Pow10(e) == IF e = 0 THEN 1 ELSE IF e = 1 THEN 10 ELSE IF e = 2 THEN 100 ELSE 1000

RECURSIVE SeqsUpTo(_, _)
\* every string over the alphabet of at most n characters
SeqsUpTo(alphabet, n) ==
    IF n = 0 THEN {<<>>}
    ELSE LET shorter == SeqsUpTo(alphabet, n - 1)
         IN shorter \cup {Append(s, ch) : s \in shorter, ch \in alphabet}

RECURSIVE Atoi(_)
\* the number a string of decimal digits denotes
Atoi(s) ==
    IF s = <<>> THEN 0
    ELSE 10 * Atoi(SubSeq(s, 1, Len(s) - 1)) + DigitVal(s[Len(s)])

RECURSIVE Itoa(_)
\* the decimal digits of n >= 0
Itoa(n) ==
    IF n < 10 THEN <<Digits[n + 1]>>
    ELSE Append(Itoa(n \div 10), Digits[(n % 10) + 1])

(***************************************************************************)
(* Size Parser: parseSize.                                                 *)
(***************************************************************************)
\* strings.ToUpper, on one character
UpperChar(ch) ==
    CASE ch = "k" -> "K"
      [] ch = "m" -> "M"
      [] ch = "g" -> "G"
      [] ch = "b" -> "B"
      [] ch = "x" -> "X"
      [] OTHER -> ch

ToUpper(s) == [i \in 1..Len(s) |-> UpperChar(s[i])]

RECURSIVE TrimLeft(_)
TrimLeft(s) == IF s # <<>> /\ IsSpace(s[1]) THEN TrimLeft(Tail(s)) ELSE s

RECURSIVE TrimRight(_)
TrimRight(s) ==
    IF s # <<>> /\ IsSpace(s[Len(s)]) THEN TrimRight(SubSeq(s, 1, Len(s) - 1)) ELSE s

\* strings.TrimSpace
TrimSpace(s) == TrimRight(TrimLeft(s))

RECURSIVE DigitRun(_)
\* the length of the longest prefix of s made of digits (the greedy \d+)
DigitRun(s) == IF s # <<>> /\ IsDigit(s[1]) THEN 1 + DigitRun(Tail(s)) ELSE 0

\* the units of the regular expression, in the case ToUpper produces
Units == {<<"K", "B">>, <<"M", "B">>, <<"G", "B">>, <<"B">>}

\* regexp (?i)^(\d+(\.\d+)?)(KB|MB|GB|B)$ applied by FindStringSubmatch: the four
\* submatches <<whole, number, fraction, unit>>, or <<>> when there is no match.
\* The string has been upper-cased by the caller, so (?i) changes nothing here.
FindStringSubmatch(s) ==
    LET n1 == DigitRun(s)
        afterInt == SubSeq(s, n1 + 1, Len(s))
        n2 == IF afterInt # <<>> /\ afterInt[1] = "." THEN DigitRun(Tail(afterInt)) ELSE 0
        frac == IF n2 > 0 THEN SubSeq(afterInt, 1, n2 + 1) ELSE <<>>
        unit == SubSeq(afterInt, Len(frac) + 1, Len(afterInt))
    IN IF n1 > 0 /\ unit \in Units
       THEN <<s, SubSeq(s, 1, n1 + Len(frac)), frac, unit>>
       ELSE <<>>

\* strconv.ParseFloat on a string digits[.digits]: the value is mant / 10^exp.
\* float64 holds every such value of the model's strings closely enough that
\* the truncations below are those of the exact product.
ParseFloat(numStr) ==
    LET n1 == DigitRun(numStr)
        fracDigits == SubSeq(numStr, n1 + 2, Len(numStr))
    IN [mant |-> Atoi(SubSeq(numStr, 1, n1) \o fracDigits), exp |-> Len(fracDigits)]

\* int64(num * factor): the product, truncated toward zero
TruncMul(num, factor) == (num.mant * factor) \div Pow10(num.exp)

\* parseSize with the call of strings.TrimSpace left out (a seeded fault)
parseSize_noTrim(sizeStr) ==
    IF sizeStr = <<>> THEN [n |-> 0, err |-> "nil"]
    ELSE LET matches == FindStringSubmatch(ToUpper(sizeStr))
         IN IF Len(matches) # 4 THEN [n |-> 0, err |-> "invalid size format"]
            ELSE LET num == ParseFloat(matches[2])
                 IN CASE matches[4] = <<"B">> -> [n |-> TruncMul(num, 1), err |-> "nil"]
                      [] matches[4] = <<"K", "B">> -> [n |-> TruncMul(num, 1024), err |-> "nil"]
                      [] matches[4] = <<"M", "B">> ->
                            [n |-> TruncMul(num, 1024 * 1024), err |-> "nil"]
                      [] matches[4] = <<"G", "B">> ->
                            [n |-> TruncMul(num, 1024 * 1024 * 1024), err |-> "nil"]
                      [] OTHER -> [n |-> 0, err |-> "unknown size unit"]

\* parseSize(sizeStr) (int64, error)
parseSize(sizeStr) ==
    IF sizeStr = <<>> THEN [n |-> 0, err |-> "nil"]
    ELSE LET s == TrimSpace(ToUpper(sizeStr))
             matches == FindStringSubmatch(s)
         IN IF Len(matches) # 4 THEN [n |-> 0, err |-> "invalid size format"]
            ELSE LET num == ParseFloat(matches[2])
                 IN CASE matches[4] = <<"B">> -> [n |-> TruncMul(num, 1), err |-> "nil"]
                      [] matches[4] = <<"K", "B">> -> [n |-> TruncMul(num, 1024), err |-> "nil"]
                      [] matches[4] = <<"M", "B">> ->
                            [n |-> TruncMul(num, 1024 * 1024), err |-> "nil"]
                      [] matches[4] = <<"G", "B">> ->
                            [n |-> TruncMul(num, 1024 * 1024 * 1024), err |-> "nil"]
                      [] OTHER -> [n |-> 0, err |-> "unknown size unit"]


(***************************************************************************)
(* The file system and the buffered writer.                                *)
(***************************************************************************)
\* fmt.Sprintf("%0*d", padWidth, part): the digits of part, padded on the left
\* with zeros to padWidth characters, never cut
PadIndex(padWidth, part) ==
    LET digits == Itoa(part)
    IN [i \in 1..(IF padWidth > Len(digits) THEN padWidth - Len(digits) ELSE 0) |-> "0"]
       \o digits

\* the filename createNewPart builds: the padded index and, with -ts, the time
\* of the creation.  The output directory, the prefix and the extension are the
\* same for every part of a run and are left out of the name.
FileName(c, part, now) ==
    [suffix |-> PadIndex(c.padWidth, part), ts |-> IF c.useTS THEN now ELSE -1]

\* os.Create(filename): the file is created or truncated, a new open handle on
\* it is returned; the handle's number is its position in s.handles
OsCreate(s, name) ==
    [s EXCEPT !.disk = {f \in s.disk : f.name # name} \cup {[name |-> name, data |-> <<>>]},
              !.handles = Append(s.handles, [name |-> name, open |-> TRUE, closes |-> 0,
                                             flushes |-> 0, late |-> 0])]

\* (*os.File).Write through handle h: appends to the file; on a closed handle the
\* write fails, the bytes are lost and the writer keeps the error
FileWrite(s, h, bytes) ==
    IF s.handles[h].open
    THEN LET name == s.handles[h].name
             old == CHOOSE f \in s.disk : f.name = name
         IN [s EXCEPT !.disk = (s.disk \ {old})
                                  \cup {[name |-> name, data |-> old.data \o bytes]}]
    ELSE [s EXCEPT !.handles[h].late = @ + 1, !.werr = TRUE]

\* (*bufio.Writer).Flush: nothing to do on an empty buffer or after an error
WriterFlush(s) ==
    IF s.writer = 0 THEN [s EXCEPT !.panicked = TRUE]
    ELSE LET counted == [s EXCEPT !.handles[s.writer].flushes = @ + 1]
         IN IF s.werr \/ s.wbuf = <<>> THEN counted
            ELSE [FileWrite(counted, s.writer, s.wbuf) EXCEPT !.wbuf = <<>>]

RECURSIVE WriterWrite(_, _)
\* (*bufio.Writer).Write(p) and WriteString: while p does not fit, either write
\* it straight to the file (empty buffer) or fill the buffer and flush it; then
\* buffer what is left.  A nil writer is a nil dereference.
WriterWrite(s, p) ==
    IF s.writer = 0 THEN [s EXCEPT !.panicked = TRUE]
    ELSE IF s.werr THEN s
    ELSE LET avail == bufSize - Len(s.wbuf)
         IN IF Len(p) > avail
            THEN IF s.wbuf = <<>>
                 THEN FileWrite(s, s.writer, p)
                 ELSE WriterWrite(
                          WriterFlush([s EXCEPT !.wbuf = @ \o SubSeq(p, 1, avail)]),
                          SubSeq(p, avail + 1, Len(p)))
            ELSE [s EXCEPT !.wbuf = @ \o p]

\* (*os.File).Close on s.out; closing a closed handle returns an error the code
\* ignores
FileClose(s) ==
    LET h == s.out
    IN IF s.handles[h].open
       THEN [s EXCEPT !.handles[h].open = FALSE, !.handles[h].closes = @ + 1]
       ELSE [s EXCEPT !.handles[h].closes = @ + 1, !.handles[h].late = @ + 1]

\* writer.Write(lineBytes) for the fragment of n bytes just read at s.pos; owner
\* records, for every input byte, the handle the write was addressed to
WriteFragment(s, bytes) ==
    LET w == WriterWrite(s, bytes)
    IN [w EXCEPT !.owner = [i \in 1..Len(s.owner) |->
                               IF i > s.pos /\ i <= s.pos + Len(bytes) /\ s.writer # 0
                               THEN s.writer ELSE s.owner[i]]]

(***************************************************************************)
(* The reader.                                                             *)
(***************************************************************************)
\* the position of the first "\n" of rest, 0 when there is none
NewlineAt(rest) ==
    IF \E i \in 1..Len(rest) : rest[i] = "\n"
    THEN CHOOSE i \in 1..Len(rest) : rest[i] = "\n" /\ \A j \in 1..(i - 1) : rest[j] # "\n"
    ELSE 0

\* (*bufio.Reader).ReadString('\n') on the unread input: the bytes through the
\* first newline, or what is left together with io.EOF
ReadString(rest) ==
    LET i == NewlineAt(rest)
    IN IF i > 0 THEN [data |-> SubSeq(rest, 1, i), err |-> "nil"]
       ELSE [data |-> rest, err |-> "EOF"]

\* (*bufio.Reader).ReadSlice('\n') with a buffer of bufSize bytes: the bytes
\* through the first newline when it is within the buffer, the full buffer with
\* ErrBufferFull when the buffer fills first, what is left with io.EOF otherwise
ReadSlice(rest) ==
    LET i == NewlineAt(rest)
    IN IF i > 0 /\ i <= bufSize THEN [data |-> SubSeq(rest, 1, i), err |-> "nil"]
       ELSE IF Len(rest) >= bufSize
            THEN [data |-> SubSeq(rest, 1, bufSize), err |-> "ErrBufferFull"]
            ELSE [data |-> rest, err |-> "EOF"]

(***************************************************************************)
(* Patterns.                                                               *)
(***************************************************************************)
\* the values of the -pattern flag of the model: none, a pattern that matches
\* the lines that start with E, and one that does not compile
PatternFlags == {"", "^E", "("}

\* regexp.Compile(pattern)
Compile(pattern) == IF pattern = "(" THEN [re |-> "", err |-> "syntax"]
                    ELSE [re |-> pattern, err |-> "nil"]

\* (*regexp.Regexp).Match(lineBytes) for the compiled pattern ^E
Match(re, lineBytes) == re = "^E" /\ lineBytes # <<>> /\ lineBytes[1] = "E"

(***************************************************************************)
(* Split Engine: createNewPart and splitFile.                              *)
(*                                                                         *)
(* c is the configuration (the arguments of splitFile and the variant of   *)
(* the program), data the content of the input file, s the record of       *)
(* splitFile's locals and of the file system.  The inputs of a step the    *)
(* program does not control are parameters: createOk (os.Create succeeds), *)
(* readFails (the read ends with an error other than io.EOF), now (the     *)
(* time of a creation).                                                    *)
(***************************************************************************)
\* a log line that names a file ("[DryRun] Would create: ", "Creating: ")
LogLine(kind, name) == [kind |-> kind, name |-> name]

\* a log line that names no file (logError, logWarn, the final "Done")
LogText(kind) == [kind |-> kind, name |-> [suffix |-> <<>>, ts |-> -1]]

\* the output directory before the run: it holds a part of an earlier run under
\* the default name of part 1
StaleDisk == {[name |-> [suffix |-> <<"0", "0", "1">>, ts |-> -1], data |-> <<"E">>]}

\* the state at the entry of splitFile: lineCount := 0, part := 1, written := 0,
\* out and writer nil; nothing read, no handle, the log as main left it
EntryState(data, log) ==
    [pos |-> 0, lineCount |-> 0, part |-> 1, written |-> 0, out |-> 0, writer |-> 0,
     wbuf |-> <<>>, werr |-> FALSE, err |-> "nil", brk |-> FALSE, clock |-> 0,
     handles |-> <<>>, disk |-> StaleDisk, log |-> log,
     owner |-> [i \in 1..Len(data) |-> 0], panicked |-> FALSE]

\* createNewPart without the early return of the dry run: it logs, then goes
\* on to create the file (a seeded fault)
createNewPart_noDryReturn(c, s, createOk, now) ==
    LET closed == IF s.out # 0 THEN FileClose(WriterFlush(s)) ELSE s
        filename == FileName(c, s.part, now)
        timed == [closed EXCEPT !.clock = now]
        logged == IF c.dryRun /\ ~c.quiet
                  THEN [timed EXCEPT !.log = Append(@, LogLine("dryrun", filename))]
                  ELSE timed
    IN IF ~createOk
       THEN [logged EXCEPT !.err = "create"]
       ELSE LET made == OsCreate(logged, filename)
            IN [made EXCEPT !.out = Len(made.handles),
                            !.writer = Len(made.handles),
                            !.wbuf = <<>>,
                            !.werr = FALSE,
                            !.log = IF c.quiet THEN @
                                    ELSE Append(@, LogLine("creating", filename)),
                            !.written = 0,
                            !.lineCount = 0,
                            !.part = @ + 1,
                            !.err = "nil"]

\* createNewPart without part++ (a seeded fault)
createNewPart_noIncrement(c, s, createOk, now) ==
    LET closed == IF s.out # 0 THEN FileClose(WriterFlush(s)) ELSE s
        filename == FileName(c, s.part, now)
        timed == [closed EXCEPT !.clock = now]
    IN IF c.dryRun
       THEN [timed EXCEPT !.err = "nil",
                          !.log = IF c.quiet THEN @
                                  ELSE Append(@, LogLine("dryrun", filename))]
       ELSE IF ~createOk
       THEN [timed EXCEPT !.err = "create"]
       ELSE LET made == OsCreate(timed, filename)
            IN [made EXCEPT !.out = Len(made.handles),
                            !.writer = Len(made.handles),
                            !.wbuf = <<>>,
                            !.werr = FALSE,
                            !.log = IF c.quiet THEN @
                                    ELSE Append(@, LogLine("creating", filename)),
                            !.written = 0,
                            !.lineCount = 0,
                            !.err = "nil"]

\* the closure createNewPart; s.err is the error it returns
createNewPart(c, s, createOk, now) ==
    LET closed == IF s.out # 0 THEN FileClose(WriterFlush(s)) ELSE s
        filename == FileName(c, s.part, now)
        timed == [closed EXCEPT !.clock = now]
    IN IF c.dryRun
       THEN [timed EXCEPT !.err = "nil",
                          !.log = IF c.quiet THEN @
                                  ELSE Append(@, LogLine("dryrun", filename))]
       ELSE IF ~createOk
       THEN [timed EXCEPT !.err = "create"]
       ELSE LET made == OsCreate(timed, filename)
            IN [made EXCEPT !.out = Len(made.handles),
                            !.writer = Len(made.handles),
                            !.wbuf = <<>>,
                            !.werr = FALSE,
                            !.log = IF c.quiet THEN @
                                    ELSE Append(@, LogLine("creating", filename)),
                            !.written = 0,
                            !.lineCount = 0,
                            !.part = @ + 1,
                            !.err = "nil"]

\* splitFile up to its loop: the first createNewPart; on an error it logs
\* "Unable to start" and returns (brk: the loop is not entered)
SplitStart(c, s, createOk, now) ==
    LET s1 == createNewPart(c, s, createOk, now)
    IN IF s1.err # "nil"
       THEN [s1 EXCEPT !.brk = TRUE, !.log = Append(@, LogText("error: Unable to start"))]
       ELSE s1

\* the rollover condition of the loop, on the line (or last fragment) just read
Rollover(c, s, line) ==
    \/ c.maxLines > 0 /\ s.lineCount >= c.maxLines
    \/ c.maxSizeBytes > 0 /\ s.written + Len(line) > c.maxSizeBytes
    \/ c.pattern # "" /\ Match(c.pattern, line)

\* RouteLine without the break after a failed creation: the line is written
\* through the old writer and the loop goes on (a seeded fault)
RouteLine_noBreak(c, s, line, createOk, now) ==
    LET s1 == IF Rollover(c, s, line) THEN createNewPart(c, s, createOk, now) ELSE s
        s2 == IF ~c.dryRun THEN WriteFragment(s1, line) ELSE s1
    IN [s2 EXCEPT !.pos = @ + Len(line),
                  !.lineCount = @ + 1,
                  !.written = @ + Len(line)]

\* the end of an iteration that read a whole line: the rollover when a threshold
\* is met, then the write and the counters; a failed creation leaves the loop
\* before the line is written
RouteLine(c, s, line, createOk, now) ==
    LET s1 == IF Rollover(c, s, line) THEN createNewPart(c, s, createOk, now) ELSE s
    IN IF s1.err # "nil"
       THEN [s1 EXCEPT !.brk = TRUE,
                       !.log = Append(@, LogText("error: Failed to create new part"))]
       ELSE LET s2 == IF ~c.dryRun THEN WriteFragment(s1, line) ELSE s1
            IN [s2 EXCEPT !.pos = @ + Len(line),
                          !.lineCount = @ + 1,
                          !.written = @ + Len(line)]

\* one iteration of the loop of src/main.go: ReadString; io.EOF and any other
\* error leave the loop at once
LoopBodyMain(c, data, s, readFails, createOk, now) ==
    LET r == ReadString(SubSeq(data, s.pos + 1, Len(data)))
    IN IF readFails
       THEN [s EXCEPT !.brk = TRUE, !.err = "read",
                      !.log = Append(@, LogText("error: Error reading line"))]
       ELSE IF r.err = "EOF"
       THEN [s EXCEPT !.brk = TRUE, !.err = "EOF", !.pos = @ + Len(r.data)]
       ELSE RouteLine(c, s, r.data, createOk, now)

\* LoopBodySlice whose ErrBufferFull branch writes the fragment without
\* moving on in the input (a seeded fault)
LoopBodySlice_noAdvance(c, data, s, readFails, createOk, now) ==
    LET r == ReadSlice(SubSeq(data, s.pos + 1, Len(data)))
    IN IF readFails
       THEN [s EXCEPT !.brk = TRUE, !.err = "read",
                      !.log = Append(@, LogText("error: Error reading line"))]
       ELSE IF r.err = "EOF"
       THEN LET s1 == IF Len(r.data) > 0 /\ ~c.dryRun THEN WriteFragment(s, r.data) ELSE s
            IN [s1 EXCEPT !.brk = TRUE, !.err = "EOF", !.pos = @ + Len(r.data)]
       ELSE IF r.err = "ErrBufferFull"
       THEN IF ~c.dryRun THEN WriteFragment(s, r.data) ELSE s
       ELSE RouteLine(c, s, r.data, createOk, now)

\* one iteration of the loop of src/unnamed/part_000: ReadSlice; at io.EOF the
\* rest is written and the loop left; on ErrBufferFull the fragment is written
\* and the loop continues; any other error leaves the loop
LoopBodySlice(c, data, s, readFails, createOk, now) ==
    LET r == ReadSlice(SubSeq(data, s.pos + 1, Len(data)))
    IN IF readFails
       THEN [s EXCEPT !.brk = TRUE, !.err = "read",
                      !.log = Append(@, LogText("error: Error reading line"))]
       ELSE IF r.err = "EOF"
       THEN LET s1 == IF Len(r.data) > 0 /\ ~c.dryRun THEN WriteFragment(s, r.data) ELSE s
            IN [s1 EXCEPT !.brk = TRUE, !.err = "EOF", !.pos = @ + Len(r.data)]
       ELSE IF r.err = "ErrBufferFull"
       THEN LET s1 == IF ~c.dryRun THEN WriteFragment(s, r.data) ELSE s
            IN [s1 EXCEPT !.pos = @ + Len(r.data)]
       ELSE RouteLine(c, s, r.data, createOk, now)

\* one iteration of the loop of splitFile, of the variant c names
LoopBody(c, data, s, readFails, createOk, now) ==
    IF c.variant = "main.go" THEN LoopBodyMain(c, data, s, readFails, createOk, now)
    ELSE LoopBodySlice(c, data, s, readFails, createOk, now)

\* SplitFinish without the final writer.Flush(): the part is only closed (a
\* seeded fault)
SplitFinish_noFlush(c, s) ==
    LET s1 == IF ~c.dryRun /\ s.writer # 0 /\ s.out # 0 THEN FileClose(s) ELSE s
    IN [s1 EXCEPT !.log = IF c.quiet THEN @ ELSE Append(@, LogText("Done"))]

\* splitFile after its loop: the final flush and close, and the "Done" line
SplitFinish(c, s) ==
    LET s1 == IF ~c.dryRun /\ s.writer # 0
              THEN LET f == WriterFlush(s) IN IF f.out # 0 THEN FileClose(f) ELSE f
              ELSE s
    IN [s1 EXCEPT !.log = IF c.quiet THEN @ ELSE Append(@, LogText("Done"))]

RECURSIVE RunLoop(_, _, _)
\* the loop of splitFile run to its end, every read and every creation
\* succeeding, the clock standing still
RunLoop(c, data, s) ==
    IF s.brk THEN s ELSE RunLoop(c, data, LoopBody(c, data, s, FALSE, TRUE, s.clock))

\* a whole call of splitFile on data in which nothing fails: the state it ends in
RunSplit(c, data, log) ==
    LET s1 == SplitStart(c, EntryState(data, log), TRUE, 0)
    IN IF s1.brk THEN s1 ELSE SplitFinish(c, RunLoop(c, data, s1))

(***************************************************************************)
(* main.                                                                   *)
(***************************************************************************)
\* the variants of the program
Variants == {"main.go", "part_000"}

\* the input files of the model: every byte string of at most MaxLen bytes over
\* a plain byte, a byte the pattern looks for, and the line terminator
Inputs == SeqsUpTo({"a", "E", "\n"}, MaxLen)

\* the values of the -lines, -size and -pad flags of the model
LinesFlags == {0, 1, 2}

SizeFlags == {<<>>, <<"2", "B">>, <<"3", "B">>, <<"3", "X", "B">>}

PadFlags == {1, 3}

\* the times time.Now() can return
Times == {0, 1}

\* the command lines of the model; src/main.go has no -pattern and no -q flag.
\* Of -pad, -ts and -q, which only change the names and the log, a command line
\* of the model sets at most one.
Flags ==
    {f \in [variant : Variants, in : {"", "f"}, lines : LinesFlags, size : SizeFlags,
            pattern : PatternFlags, pad : PadFlags, ts : BOOLEAN, dry : BOOLEAN,
            quiet : BOOLEAN] :
        /\ f.variant = "main.go" => f.pattern = "" /\ ~f.quiet
        /\ Cardinality({x \in {"pad", "ts", "q"} :
               \/ x = "pad" /\ f.pad # 3
               \/ x = "ts" /\ f.ts
               \/ x = "q" /\ f.quiet}) <= 1}

\* the arguments of splitFile before main has set them
NoArgs ==
    [variant |-> "main.go", maxLines |-> 0, maxSizeBytes |-> 0, pattern |-> "",
     padWidth |-> 3, useTS |-> FALSE, dryRun |-> FALSE, quiet |-> FALSE]

\* main with the byte threshold left at 1, not 0, when parseSize fails (a
\* seeded fault)
main_degradeToOne(f, openOk) ==
    LET size == parseSize(f.size)
        compiled == IF f.pattern # "" THEN Compile(f.pattern) ELSE [re |-> "", err |-> "nil"]
        stop(why) == [exit |-> 1, cause |-> why, c |-> NoArgs, size |-> size,
                      log |-> <<LogText("error: " \o why)>>]
    IN IF f.in = "" THEN stop("Input file is required")
       ELSE IF ~openOk THEN stop("Failed to open input file")
       ELSE IF compiled.err # "nil" THEN stop("Invalid regex pattern")
       ELSE [exit |-> -1, cause |-> "none",
             c |-> [variant |-> f.variant, maxLines |-> f.lines,
                    maxSizeBytes |-> IF size.err # "nil" THEN 1 ELSE size.n,
                    pattern |-> compiled.re, padWidth |-> f.pad, useTS |-> f.ts,
                    dryRun |-> f.dry, quiet |-> f.quiet],
             size |-> size,
             log |-> IF size.err # "nil" THEN <<LogText("warn: Invalid size format")>>
                     ELSE <<>>]

\* main, from flag.Parse to the call of splitFile: exit is 1 where main calls
\* os.Exit(1) and -1 where it goes on to splitFile with the arguments c
main(f, openOk) ==
    LET size == parseSize(f.size)
        compiled == IF f.pattern # "" THEN Compile(f.pattern) ELSE [re |-> "", err |-> "nil"]
        stop(why) == [exit |-> 1, cause |-> why, c |-> NoArgs, size |-> size,
                      log |-> <<LogText("error: " \o why)>>]
    IN IF f.in = "" THEN stop("Input file is required")
       ELSE IF ~openOk THEN stop("Failed to open input file")
       ELSE IF compiled.err # "nil" THEN stop("Invalid regex pattern")
       ELSE [exit |-> -1, cause |-> "none",
             c |-> [variant |-> f.variant, maxLines |-> f.lines,
                    maxSizeBytes |-> IF size.err # "nil" THEN 0 ELSE size.n,
                    pattern |-> compiled.re, padWidth |-> f.pad, useTS |-> f.ts,
                    dryRun |-> f.dry, quiet |-> f.quiet],
             size |-> size,
             log |-> IF size.err # "nil" THEN <<LogText("warn: Invalid size format")>>
                     ELSE <<>>]

(***************************************************************************)
(* The program as a state machine.                                         *)
(***************************************************************************)
NoSize == [n |-> 0, err |-> "nil"]

Init ==
    /\ pc = "main"
    /\ exitCode = -1
    /\ cause = "none"
    /\ args = NoArgs
    /\ input = <<>>
    /\ sizeFlag = <<>>
    /\ sizeRes = NoSize
    /\ st = EntryState(<<>>, <<>>)

\* main runs up to the call of splitFile, or to os.Exit(1)
Main ==
    /\ pc = "main"
    /\ \E f \in Flags, openOk \in BOOLEAN, data \in Inputs :
          LET m == main(f, openOk)
          IN IF m.exit = 1
             THEN /\ pc' = "exit"
                  /\ exitCode' = 1
                  /\ cause' = m.cause
                  /\ st' = [st EXCEPT !.log = m.log]
                  /\ UNCHANGED <<args, input, sizeFlag, sizeRes>>
             ELSE /\ pc' = "splitFile"
                  /\ args' = m.c
                  /\ input' = data
                  /\ sizeFlag' = f.size
                  /\ sizeRes' = m.size
                  /\ st' = EntryState(data, m.log)
                  /\ UNCHANGED <<exitCode, cause>>

\* the times a creation can see: the clock does not run backwards, and is read
\* only with -ts
NowAt(s) == {t \in Times : t >= s.clock /\ (args.useTS \/ t = s.clock)}

\* splitFile creates the first part; when that fails it returns to main, which
\* returns: the process ends with exit code 0
Start ==
    /\ pc = "splitFile"
    /\ \E createOk \in BOOLEAN, now \in NowAt(st) :
          /\ st' = SplitStart(args, st, createOk, now)
          /\ IF st'.brk
             THEN pc' = "exit" /\ exitCode' = 0
             ELSE pc' = "loop" /\ UNCHANGED exitCode
    /\ UNCHANGED <<cause, args, input, sizeFlag, sizeRes>>

\* one iteration of the loop of splitFile
Loop ==
    /\ pc = "loop"
    /\ \E readFails \in BOOLEAN, createOk \in BOOLEAN, now \in NowAt(st) :
          /\ st' = LoopBody(args, input, st, readFails, createOk, now)
          /\ pc' = IF st'.brk THEN "finish" ELSE "loop"
    /\ UNCHANGED <<exitCode, cause, args, input, sizeFlag, sizeRes>>

\* splitFile flushes and closes the last part and returns; main returns
Finish ==
    /\ pc = "finish"
    /\ st' = SplitFinish(args, st)
    /\ pc' = "exit"
    /\ exitCode' = 0
    /\ UNCHANGED <<cause, args, input, sizeFlag, sizeRes>>

Next == Main \/ Start \/ Loop \/ Finish

Spec == Init /\ [][Next]_vars

\* splitFile is the only thread of control and, once called, runs until it
\* returns: a step of it that can be taken is taken
SpecFair == Spec /\ WF_vars(Start \/ Loop \/ Finish)

(***************************************************************************)
(* The Size Parser alone, on every -size string of the model.              *)
(***************************************************************************)
\* the enumerated -size strings, and the examples of the documentation
SizeStrings ==
    SeqsUpTo({"1", "5", ".", "k", "M", "B", " ", "X"}, MaxSizeLen)
    \cup {<<"1", "0", "0", "M", "B">>, <<"5", "0", "0", "K", "B">>,
          <<"1", "0", "0", "X", "B">>, <<"1", "G", "B">>, <<"1", ".", "5", "m", "b">>,
          <<" ", "1", "0", "0", "M", "B", " ">>, <<"1", "0", "0">>,
          <<"\t", "1", "g", "b">>}

InitParse ==
    /\ pc = "parse"
    /\ exitCode = -1
    /\ cause = "none"
    /\ args = NoArgs
    /\ input = <<>>
    /\ sizeFlag \in SizeStrings
    /\ sizeRes = NoSize
    /\ st = EntryState(<<>>, <<>>)

\* maxSizeBytes, err := parseSize(*sizePerFile)
ParseCall ==
    /\ pc = "parse"
    /\ sizeRes' = parseSize(sizeFlag)
    /\ pc' = "parsed"
    /\ UNCHANGED <<exitCode, cause, args, input, sizeFlag, st>>

NextParse == ParseCall

SpecParse == InitParse /\ [][NextParse]_vars

(***************************************************************************)
(* Vocabulary of the properties.                                           *)
(***************************************************************************)
\* splitFile has run and the process has ended
Ended == pc = "exit" /\ cause = "none"

\* the run ended at the end of the input: no read failed, no creation failed
CleanEnd == Ended /\ st.err = "EOF"

\* the part index a filename carries
IndexOf(name) == Atoi(name.suffix)

\* the content on disk of the part with index idx among the files this run
\* created (empty when the run created no such file)
PartData(idx) ==
    LET names == {st.handles[k].name : k \in 1..Len(st.handles)}
        files == {f \in st.disk : f.name \in names /\ IndexOf(f.name) = idx}
    IN IF files = {} THEN <<>> ELSE (CHOOSE f \in files : TRUE).data

RECURSIVE ConcatParts(_, _)
\* the contents of the parts idx..last, concatenated in index order
ConcatParts(idx, last) ==
    IF idx > last THEN <<>> ELSE PartData(idx) \o ConcatParts(idx + 1, last)

\* the highest part index the run can reach: one part per input byte, and one
HighestIndex == Len(input) + 2

\* the number of the input line that byte i belongs to
LineNo(i) == 1 + Cardinality({j \in 1..(i - 1) : input[j] = "\n"})

\* the number of lines of the input, an unterminated last line included
LineTotal == IF input = <<>> THEN 0 ELSE LineNo(Len(input))

\* the positions of the bytes of input line n
LineBytes(n) == {i \in 1..Len(input) : LineNo(i) = n}

\* the bytes of input line n
LineText(n) ==
    LET ps == LineBytes(n)
    IN IF ps = {} THEN <<>>
       ELSE SubSeq(input, CHOOSE i \in ps : \A j \in ps : i <= j,
                          CHOOSE i \in ps : \A j \in ps : i >= j)

\* the input bytes written through handle h
BytesOf(h) == {i \in 1..Len(input) : st.owner[i] = h}

\* the input lines with a byte written through handle h
LinesOf(h) == {LineNo(i) : i \in BytesOf(h)}

\* line n is the first line of a part: its bytes went through one handle, and
\* no byte of an earlier line did
StartsPart(n) ==
    \E h \in 1..Len(st.handles) :
        /\ LineBytes(n) \subseteq BytesOf(h)
        /\ \A i \in BytesOf(h) : LineNo(i) >= n

(***************************************************************************)
(* C1 - Round trip.  After a run that is not a dry run and in which every  *)
(* creation and every read succeeded, the contents of the parts,           *)
(* concatenated in part-index order, are the input, byte for byte.         *)
(* Stated for both variants of splitFile.                                  *)
(***************************************************************************)
\* C1: in both variants, the parts concatenated in index order are the input
RoundTrip ==
    (CleanEnd /\ ~args.dryRun) => ConcatParts(1, HighestIndex) = input

\* the round trip of the ReadSlice variant alone
RoundTripSlice ==
    (CleanEnd /\ ~args.dryRun /\ args.variant = "part_000")
        => ConcatParts(1, HighestIndex) = input

(***************************************************************************)
(* C2 - Line threshold.  With maxLines = N > 0 and no other threshold, in  *)
(* a run that is not a dry run, when the run has ended every part but the  *)
(* last holds exactly N input lines: part k holds lines (k-1)N+1 .. kN and *)
(* nothing else.                                                           *)
(***************************************************************************)
OnlyLines == args.maxLines > 0 /\ args.maxSizeBytes = 0 /\ args.pattern = ""

\* C2: every part but the last is made of the N input lines that are its share
LineThreshold ==
    (Ended /\ ~args.dryRun /\ OnlyLines) =>
        \A k \in 1..(Len(st.handles) - 1) :
            /\ LinesOf(k) = ((k - 1) * args.maxLines + 1)..(k * args.maxLines)
            /\ \A n \in LinesOf(k) : LineBytes(n) \subseteq BytesOf(k)

\* the line threshold of the ReadString variant alone
LineThresholdMain ==
    (Ended /\ ~args.dryRun /\ OnlyLines /\ args.variant = "main.go") =>
        \A k \in 1..(Len(st.handles) - 1) :
            /\ LinesOf(k) = ((k - 1) * args.maxLines + 1)..(k * args.maxLines)
            /\ \A n \in LinesOf(k) : LineBytes(n) \subseteq BytesOf(k)

\* every part but the last holds exactly N line terminators
LineThresholdTerminators ==
    (Ended /\ ~args.dryRun /\ OnlyLines) =>
        \A k \in 1..(Len(st.handles) - 1) :
            Cardinality({i \in BytesOf(k) : input[i] = "\n"}) = args.maxLines

(***************************************************************************)
(* C3 - Size threshold.  With maxSizeBytes = M > 0 and no other threshold, *)
(* in a run that is not a dry run, at every point of the run the bytes     *)
(* written to a part are at most M, unless the part consists of a single   *)
(* line that is itself longer than M.                                      *)
(***************************************************************************)
OnlySize == args.maxSizeBytes > 0 /\ args.maxLines = 0 /\ args.pattern = ""

WithinSize(h) ==
    \/ Cardinality(BytesOf(h)) <= args.maxSizeBytes
    \/ \E n \in 1..LineTotal :
          /\ LinesOf(h) = {n}
          /\ Cardinality(LineBytes(n)) > args.maxSizeBytes

\* C3: at every point no part is over M bytes, but for a single line over M
SizeThreshold ==
    (pc \in {"loop", "finish", "exit"} /\ cause = "none" /\ ~args.dryRun /\ OnlySize)
        => \A h \in 1..Len(st.handles) : WithinSize(h)

\* the size threshold of the ReadString variant alone
SizeThresholdMain ==
    (pc \in {"loop", "finish", "exit"} /\ cause = "none" /\ ~args.dryRun /\ OnlySize
         /\ args.variant = "main.go")
        => \A h \in 1..Len(st.handles) : WithinSize(h)

(***************************************************************************)
(* C4 - Pattern threshold.  With a pattern, after a run that is not a dry  *)
(* run, every input line but the first that matches the pattern is the     *)
(* first line of some part, a last line without a newline included.        *)
(***************************************************************************)
\* C4: every matching line after the first is the first line of a part
PatternStartsPart ==
    (CleanEnd /\ ~args.dryRun /\ args.pattern # "") =>
        \A n \in 2..LineTotal : Match(args.pattern, LineText(n)) => StartsPart(n)

(***************************************************************************)
(* C5 - First line placement.  For every non-empty input and every         *)
(* configuration, the first line of the input is written to part 1, the    *)
(* part created at the start of the run.                                   *)
(***************************************************************************)
\* the first line of every input is in part 1
FirstLineInPartOne ==
    (CleanEnd /\ ~args.dryRun /\ input # <<>>) =>
        /\ Len(st.handles) >= 1
        /\ IndexOf(st.handles[1].name) = 1
        /\ LineBytes(1) \subseteq BytesOf(1)

\* C5: the first line is in part 1, for the inputs whose first line ends with a
\* newline (an input that is one unterminated line is the matter of the round
\* trip)
FirstLineInPartOneTerminated ==
    (CleanEnd /\ ~args.dryRun /\ input # <<>> /\ \E i \in 1..Len(input) : input[i] = "\n") =>
        /\ Len(st.handles) >= 1
        /\ IndexOf(st.handles[1].name) = 1
        /\ LineBytes(1) \subseteq BytesOf(1)

(***************************************************************************)
(* C6 - Dry-run equivalence.  With timestamps disabled, the filenames a    *)
(* dry run logs as "[DryRun] Would create" are, in order, the filenames a  *)
(* run that is not a dry run creates on the same input and configuration.  *)
(* Stated for the runs that log (no -q).                                   *)
(***************************************************************************)
\* the filenames of the log lines of one kind, in order
RECURSIVE LoggedNames(_, _)
LoggedNames(log, kind) ==
    IF log = <<>> THEN <<>>
    ELSE IF log[1].kind = kind THEN <<log[1].name>> \o LoggedNames(Tail(log), kind)
    ELSE LoggedNames(Tail(log), kind)

\* the filenames the same run creates when it is not a dry run
RealRunNames ==
    LET real == RunSplit([args EXCEPT !.dryRun = FALSE], input, <<>>)
    IN [k \in 1..Len(real.handles) |-> real.handles[k].name]

\* C6: the names a dry run logs are the names the real run creates
DryRunSameNames ==
    (CleanEnd /\ args.dryRun /\ ~args.useTS /\ ~args.quiet)
        => LoggedNames(st.log, "dryrun") = RealRunNames

\* what does hold: a dry run logs the name of part 1, and nothing but it
DryRunLogsPartOne ==
    (CleanEnd /\ args.dryRun /\ ~args.useTS /\ ~args.quiet) =>
        \A i \in 1..Len(LoggedNames(st.log, "dryrun")) :
            LoggedNames(st.log, "dryrun")[i] = RealRunNames[1]

(***************************************************************************)
(* C7 - Dry-run frame.  In a dry run no output file is ever created,       *)
(* written, flushed or closed: there is no handle and no writer, and the   *)
(* files on disk are those of the start of the run, unchanged.             *)
(***************************************************************************)
InSplitFile == pc \in {"splitFile", "loop", "finish", "exit"} /\ cause = "none"

\* C7: a dry run has no handle, no writer, and leaves the disk as it was
DryRunFrame ==
    (InSplitFile /\ args.dryRun) =>
        /\ st.handles = <<>>
        /\ st.out = 0 /\ st.writer = 0 /\ st.wbuf = <<>>
        /\ st.disk = StaleDisk
        /\ \A i \in 1..Len(input) : st.owner[i] = 0
        /\ ~st.panicked

\* a dry run has ended after it met a rollover
DryRunFrameWitness ==
    /\ CleanEnd /\ args.dryRun
    /\ Len(input) >= 3
    /\ Len(LoggedNames(st.log, "dryrun")) >= 2
    /\ st.disk = StaleDisk

(***************************************************************************)
(* C8 - Part index sequence.  In a run that is not a dry run the indices   *)
(* in the filenames of the parts created are 1, 2, 3, ... in creation      *)
(* order, whatever triggered each rollover.                                *)
(***************************************************************************)
\* C8: the k-th part created carries the index k
PartIndexSequence ==
    (InSplitFile /\ ~args.dryRun) =>
        \A k \in 1..Len(st.handles) : IndexOf(st.handles[k].name) = k

\* three parts have been created, with a line threshold and a pattern both set
PartIndexWitness ==
    /\ Ended /\ ~args.dryRun
    /\ Len(st.handles) >= 3
    /\ args.maxLines > 0 /\ args.pattern # ""
    /\ IndexOf(st.handles[3].name) = 3

(***************************************************************************)
(* C9 - Exit code.  The process ends with exit code 1 exactly when the     *)
(* input path is missing, the input cannot be opened, the pattern does not *)
(* compile, or an output part cannot be created; otherwise with 0.         *)
(***************************************************************************)
\* C9: exit code 1 exactly in the four cases, 0 otherwise
ExitCodeContract ==
    pc = "exit" =>
        (exitCode = 1 <=>
            \/ cause \in {"Input file is required", "Failed to open input file",
                          "Invalid regex pattern"}
            \/ st.err = "create")

\* what does hold: exit code 1 exactly when main stops before splitFile
ExitCodeOfMain ==
    pc = "exit" => (exitCode = 1 <=> cause # "none") /\ exitCode \in {0, 1}

(***************************************************************************)
(* C10 - Size Parser result.  parseSize agrees with the Size Parser        *)
(* contract on every string: the empty string gives 0 and no error; a      *)
(* string made of digits, optionally a point and digits, and then B, KB,   *)
(* MB or GB in either case gives the number times 1, 1024, 1024^2 or       *)
(* 1024^3, truncated toward zero; every other string is a parse failure.   *)
(***************************************************************************)
\* s is one or more digits
AllDigits(s) == s # <<>> /\ \A i \in 1..Len(s) : IsDigit(s[i])

\* the position of the decimal point of a number digits.digits, 0 for digits
\* alone, -1 when s is no number
PointOf(s) ==
    IF AllDigits(s) THEN 0
    ELSE IF \E d \in 2..(Len(s) - 1) :
                s[d] = "." /\ AllDigits(SubSeq(s, 1, d - 1)) /\ AllDigits(SubSeq(s, d + 1, Len(s)))
         THEN CHOOSE d \in 2..(Len(s) - 1) :
                s[d] = "." /\ AllDigits(SubSeq(s, 1, d - 1)) /\ AllDigits(SubSeq(s, d + 1, Len(s)))
         ELSE -1

\* the multiplier of a unit suffix, in either case; 0 when u is no unit
UnitFactor(u) ==
    LET up == [i \in 1..Len(u) |-> IF u[i] \in {"b", "B"} THEN "B"
                                   ELSE IF u[i] \in {"k", "K"} THEN "K"
                                   ELSE IF u[i] \in {"m", "M"} THEN "M"
                                   ELSE IF u[i] \in {"g", "G"} THEN "G"
                                   ELSE "?"]
    IN CASE up = <<"B">> -> 1
         [] up = <<"K", "B">> -> 1024
         [] up = <<"M", "B">> -> 1048576
         [] up = <<"G", "B">> -> 1073741824
         [] OTHER -> 0

\* the number times the factor, truncated toward zero: the whole part times the
\* factor, plus the truncated share of the fraction
Scaled(number, factor) ==
    LET d == PointOf(number)
    IN IF d = 0 THEN Atoi(number) * factor
       ELSE Atoi(SubSeq(number, 1, d - 1)) * factor
            + (Atoi(SubSeq(number, d + 1, Len(number))) * factor) \div Pow10(Len(number) - d)

\* the contract on a string that is not empty: where the number ends and the
\* unit starts, 0 when the string has no such form
UnitStart(s) ==
    IF \E i \in 1..(Len(s) - 1) :
           PointOf(SubSeq(s, 1, i)) >= 0 /\ UnitFactor(SubSeq(s, i + 1, Len(s))) > 0
    THEN CHOOSE i \in 1..(Len(s) - 1) :
           PointOf(SubSeq(s, 1, i)) >= 0 /\ UnitFactor(SubSeq(s, i + 1, Len(s))) > 0
    ELSE 0

ContractOnForm(s) ==
    LET i == UnitStart(s)
    IN IF i = 0 THEN [n |-> 0, ok |-> FALSE]
       ELSE [n |-> Scaled(SubSeq(s, 1, i), UnitFactor(SubSeq(s, i + 1, Len(s)))), ok |-> TRUE]

\* the Size Parser contract as stated: the string itself must have the form
SizeContract(s) == IF s = <<>> THEN [n |-> 0, ok |-> TRUE] ELSE ContractOnForm(s)

\* the contract amended: the string with the white space around it removed
\* must have the form
SizeContractTrimmed(s) ==
    IF s = <<>> THEN [n |-> 0, ok |-> TRUE]
    ELSE LET first == CHOOSE i \in 1..(Len(s) + 1) :
                         /\ \A j \in 1..(i - 1) : IsSpace(s[j])
                         /\ i <= Len(s) => ~IsSpace(s[i])
             last == CHOOSE i \in 0..Len(s) :
                         /\ \A j \in (i + 1)..Len(s) : IsSpace(s[j])
                         /\ i >= 1 => ~IsSpace(s[i])
         IN ContractOnForm(SubSeq(s, first, last))

\* a result of parseSize agrees with a result of the contract
Agrees(res, want) ==
    /\ (res.err = "nil") = want.ok
    /\ res.n = want.n

ParseSizeExamples ==
    /\ parseSize(<<"1", "0", "0", "M", "B">>) = [n |-> 104857600, err |-> "nil"]
    /\ parseSize(<<"5", "0", "0", "K", "B">>) = [n |-> 512000, err |-> "nil"]
    /\ parseSize(<<>>) = [n |-> 0, err |-> "nil"]
    /\ parseSize(<<"1", "0", "0", "X", "B">>).err # "nil"
    /\ parseSize(<<"1", ".", "5", "m", "b">>) = [n |-> 1572864, err |-> "nil"]

(***************************************************************************)
(* C11 - Degraded size option.  When parseSize fails, main logs a warning, *)
(* sets the byte threshold to 0 and still runs splitFile; the parts are    *)
(* those of the run on the same input and configuration with an empty      *)
(* -size.                                                                  *)
(***************************************************************************)
\* the parts a state holds, in creation order: index and content on disk
PartsOf(s) ==
    [k \in 1..Len(s.handles) |->
        [index |-> IndexOf(s.handles[k].name),
         data |-> (CHOOSE f \in s.disk : f.name = s.handles[k].name).data]]

\* the end of the run of the same command line with -size "", nothing failing
EmptySizeRun ==
    LET f == [variant |-> args.variant, in |-> "f", lines |-> args.maxLines,
              size |-> <<>>, pattern |-> args.pattern, pad |-> args.padWidth,
              ts |-> args.useTS, dry |-> args.dryRun, quiet |-> args.quiet]
        m == main(f, TRUE)
    IN RunSplit(m.c, input, m.log)

\* the part indices of the names a log announces (created or, in a dry run,
\* would create), in order
LoggedIndices(log) ==
    LET names == LoggedNames(log, "dryrun") \o LoggedNames(log, "creating")
    IN [i \in 1..Len(names) |-> IndexOf(names[i])]

\* C11: after a failed parse, a warning, no byte threshold, the parts of -size ""
DegradedSize ==
    (InSplitFile /\ sizeRes.err # "nil") =>
        /\ st.log # <<>> /\ st.log[1] = LogText("warn: Invalid size format")
        /\ args.maxSizeBytes = 0
        /\ CleanEnd => /\ PartsOf(st) = PartsOf(EmptySizeRun)
                       /\ LoggedIndices(st.log) = LoggedIndices(EmptySizeRun.log)

\* a run with -size 3XB has ended with a part longer than 3 bytes
DegradedSizeWitness ==
    /\ CleanEnd /\ ~args.dryRun
    /\ sizeFlag = <<"3", "X", "B">>
    /\ Len(st.handles) = 1
    /\ Len(PartsOf(st)[1].data) = 4

(***************************************************************************)
(* C12 - No thresholds.  With maxLines = 0, maxSizeBytes = 0 and no        *)
(* pattern no rollover follows the first creation: exactly one part, of    *)
(* index 1, is created and, when the run is not a dry run, it holds the    *)
(* whole input.                                                            *)
(***************************************************************************)
NoThresholds == args.maxLines = 0 /\ args.maxSizeBytes = 0 /\ args.pattern = ""

\* C12: one part, index 1, holding the whole input
NoThresholdsOnePart ==
    (CleanEnd /\ NoThresholds) =>
        /\ ~args.quiet => LoggedIndices(st.log) = <<1>>
        /\ ~args.dryRun => PartsOf(st) = <<[index |-> 1, data |-> input]>>

\* what does hold in both variants: one part, of index 1, is begun
NoThresholdsNoRollover ==
    (CleanEnd /\ NoThresholds) =>
        /\ ~args.quiet => LoggedIndices(st.log) = <<1>>
        /\ ~args.dryRun => Len(st.handles) = 1 /\ IndexOf(st.handles[1].name) = 1
        /\ st.part = IF args.dryRun THEN 1 ELSE 2

(***************************************************************************)
(* C13 - Unterminated last line.  When the input does not end with a       *)
(* newline, the bytes after the last newline are written to the open part  *)
(* before it is flushed and closed, in both variants.                      *)
(***************************************************************************)
Unterminated == input # <<>> /\ input[Len(input)] # "\n"

\* the content on disk of the file of handle h ends with the bytes tail
EndsWith(h, tail) ==
    LET data == (CHOOSE f \in st.disk : f.name = st.handles[h].name).data
    IN Len(data) >= Len(tail) /\ SubSeq(data, Len(data) - Len(tail) + 1, Len(data)) = tail

\* C13: the last, unterminated line is in the part that was open at the end
LastFragmentWritten ==
    (CleanEnd /\ ~args.dryRun /\ Unterminated) =>
        /\ st.out # 0
        /\ LineBytes(LineTotal) \subseteq BytesOf(st.out)
        /\ EndsWith(st.out, LineText(LineTotal))

\* the last fragment of the ReadSlice variant alone: its bytes reach the disk
LastFragmentWrittenSlice ==
    (CleanEnd /\ ~args.dryRun /\ Unterminated /\ args.variant = "part_000") =>
        /\ st.out # 0
        /\ \A i \in LineBytes(LineTotal) : st.owner[i] # 0
        /\ ConcatParts(1, HighestIndex) = input

(***************************************************************************)
(* C14 - Lines are never split.  All the bytes of an input line, also of a *)
(* line longer than the size threshold or than the read buffer, are        *)
(* written to one and the same part; a rollover the line triggers happens  *)
(* before any of its bytes is written.                                     *)
(***************************************************************************)
\* the handles the bytes of line n written so far went through
HandlesOfLine(n) == {st.owner[i] : i \in LineBytes(n)} \ {0}

\* C14: at every point, no line has bytes in two parts
LinesNeverSplit ==
    (InSplitFile /\ ~args.dryRun) =>
        \A n \in 1..LineTotal : Cardinality(HandlesOfLine(n)) <= 1

\* lines are never split by the ReadString variant
LinesNeverSplitMain ==
    (InSplitFile /\ ~args.dryRun /\ args.variant = "main.go") =>
        \A n \in 1..LineTotal : Cardinality(HandlesOfLine(n)) <= 1

(***************************************************************************)
(* C15 - Part State reset.  Every time a new part begins, the first part   *)
(* and every rollover, in a dry run as in a real run, the line count and   *)
(* the byte count are set to zero and the part index grows by exactly one; *)
(* the counters are reset at no other moment.                              *)
(***************************************************************************)
\* a step of splitFile begins a part: it creates a file or, in a dry run,
\* announces one
PartBegins ==
    \/ Len(st'.handles) > Len(st.handles)
    \/ Len(LoggedNames(st'.log, "dryrun")) > Len(LoggedNames(st.log, "dryrun"))

\* the counters after a step that begins a part are those of a fresh part: zero
\* after the first creation, the one line routed to the new part after a
\* rollover; a step that begins no part lowers no counter and keeps the index
FreshPartStep ==
    pc \in {"splitFile", "loop"} =>
        /\ PartBegins =>
              /\ st'.part = st.part + 1
              /\ st'.lineCount = (IF pc = "loop" THEN 1 ELSE 0)
              /\ st'.written = st'.pos - st.pos
        /\ ~PartBegins =>
              /\ st'.part = st.part
              /\ st'.lineCount >= st.lineCount
              /\ st'.written >= st.written

\* C15: every step that begins a part resets the counters and adds one to the
\* index, in a dry run too; no other step resets them
PartStateReset == [][FreshPartStep]_vars

\* the part state is reset with every part of a run that is not a dry run
PartStateResetReal == [][~args.dryRun => FreshPartStep]_vars

(***************************************************************************)
(* C16 - Output creation failure.  When the creation of a part fails, for  *)
(* the first part or at a rollover, the run stops at once: no further line *)
(* is read or written, the creation is not retried, no later part is       *)
(* created, and the parts completed before are left as they are.           *)
(***************************************************************************)
\* a is a prefix of b
IsPrefix(a, b) == Len(a) <= Len(b) /\ SubSeq(b, 1, Len(a)) = a

\* the step in which a creation fails: the loop is left, the line that asked
\* for the rollover is not consumed and not written, no handle is added, and
\* the files on disk only get what was already written to them
FailingStep ==
    (st'.err = "create" /\ st.err # "create") =>
        /\ st'.brk /\ pc' \in {"finish", "exit"}
        /\ st'.pos = st.pos /\ st'.owner = st.owner
        /\ Len(st'.handles) = Len(st.handles)
        /\ \A f \in st.disk : \E g \in st'.disk : g.name = f.name /\ IsPrefix(f.data, g.data)
        /\ \A h \in 1..Len(st'.handles) : ~st'.handles[h].open
        /\ st'.wbuf = <<>>

\* every step after the failure: nothing is read, written or created, and the
\* files on disk keep their contents
AfterFailureStep ==
    st.err = "create" =>
        /\ pc' = "exit"
        /\ st'.pos = st.pos /\ st'.owner = st.owner
        /\ Len(st'.handles) = Len(st.handles)
        /\ st'.disk = st.disk

\* C16: a failed creation ends the run at once and leaves the parts as they are
CreationFailureStops == [][FailingStep /\ AfterFailureStep]_vars

\* a creation failed at a rollover after a part had been written, and the
\* process has ended
CreationFailureWitness ==
    /\ pc = "exit" /\ st.err = "create"
    /\ Len(st.handles) = 1
    /\ PartsOf(st)[1].data # <<>>
    /\ st.pos < Len(input)

(***************************************************************************)
(* C17 - Read error.  When a read fails with an error other than           *)
(* end-of-input, the loop stops without reading again, the open part is    *)
(* flushed and closed, the parts on disk hold exactly what was written     *)
(* before the error (their concatenation is a prefix of the input), and    *)
(* the process ends with exit code 0.                                      *)
(***************************************************************************)
\* the end of a run in which a read failed
ReadErrorEnd ==
    (pc = "exit" /\ cause = "none" /\ st.err = "read") =>
        /\ exitCode = 0
        /\ ~args.dryRun =>
              /\ st.wbuf = <<>>
              /\ \A h \in 1..Len(st.handles) : ~st.handles[h].open
              /\ \A i \in 1..Len(input) : (st.owner[i] # 0) = (i <= st.pos)
              /\ ConcatParts(1, HighestIndex) = SubSeq(input, 1, st.pos)

\* after the failed read nothing is read and the loop is not entered again
AfterReadError ==
    st.err = "read" =>
        /\ st.brk /\ pc' = "exit"
        /\ st'.pos = st.pos /\ st'.owner = st.owner
        /\ Len(st'.handles) = Len(st.handles)

\* C17: a read error stops the loop; the parts are flushed and closed and hold
\* the input up to the error; exit code 0
ReadErrorStops == [][AfterReadError]_vars /\ []ReadErrorEnd

\* a read failed in the middle of the input after two bytes or more had been
\* written, and the process has ended
ReadErrorWitness ==
    /\ pc = "exit" /\ st.err = "read" /\ ~args.dryRun
    /\ st.pos >= 2 /\ st.pos < Len(input)
    /\ ConcatParts(1, HighestIndex) = SubSeq(input, 1, st.pos)
    /\ exitCode = 0

(***************************************************************************)
(* C18 - Termination in Closed.  For every input and configuration         *)
(* splitFile eventually leaves its loop and returns (each loop step        *)
(* consumes at least one input byte or ends the loop); in a run that is    *)
(* not a dry run and created a part, at that point every byte written is   *)
(* on disk and no output handle is open.                                   *)
(***************************************************************************)
\* a loop step that stays in the loop has consumed input
LoopProgress == (pc = "loop" /\ pc' = "loop") => st'.pos > st.pos

\* the bytes written through handle h, in input order
WrittenThrough(h) ==
    LET ps == BytesOf(h)
    IN IF ps = {} THEN <<>>
       ELSE SubSeq(input, CHOOSE i \in ps : \A j \in ps : i <= j,
                          CHOOSE i \in ps : \A j \in ps : i >= j)

\* splitFile has returned
Closed == pc = "exit" /\ cause = "none"

\* in Closed nothing is buffered, nothing is open, and the files hold what was
\* written
ClosedFlushed ==
    (Closed /\ ~args.dryRun /\ Len(st.handles) >= 1) =>
        /\ st.wbuf = <<>>
        /\ \A h \in 1..Len(st.handles) :
              /\ ~st.handles[h].open
              /\ PartsOf(st)[h].data = WrittenThrough(h)

\* C18: splitFile always reaches Closed, each loop step makes progress, and in
\* Closed everything written is flushed and every handle is closed
TerminatesClosed ==
    /\ [][LoopProgress]_vars
    /\ []ClosedFlushed
    /\ (pc = "splitFile") ~> Closed

\* a run of the ReadSlice variant that wrote a fragment of a long line, rolled
\* over, and returned at the end of the input
TerminatesWitness ==
    /\ Closed /\ ~args.dryRun /\ args.variant # "main.go"
    /\ st.err = "EOF" /\ st.pos = Len(input)
    /\ Len(st.handles) >= 2
    /\ \E n \in 1..LineTotal : Cardinality(LineBytes(n)) > bufSize

(***************************************************************************)
(* C19 - Output handle lifecycle.  In a run that is not a dry run, on      *)
(* every path, at most one output handle is open at any moment, every      *)
(* line is written to the most recently created part only, and each        *)
(* created handle is flushed and then closed exactly once: no handle is    *)
(* written, flushed or closed again after it has been closed.              *)
(***************************************************************************)
\* the handles open now
OpenHandles == {h \in 1..Len(st.handles) : st.handles[h].open}

\* the lifecycle of the handles at a point of a run, whatever its path
LifecycleAt ==
    /\ Cardinality(OpenHandles) <= 1
    /\ OpenHandles \subseteq {Len(st.handles)}
    /\ \A i, j \in 1..Len(input) :
          (i < j /\ st.owner[i] # 0 /\ st.owner[j] # 0) => st.owner[i] <= st.owner[j]
    /\ \A h \in 1..Len(st.handles) :
          /\ st.handles[h].late = 0
          /\ st.handles[h].closes = (IF st.handles[h].open THEN 0 ELSE 1)
          /\ ~st.handles[h].open => st.handles[h].flushes >= 1
    /\ Closed => OpenHandles = {}

\* C19: the handle lifecycle holds on every path of a run that is not a dry run
HandleLifecycle == (InSplitFile /\ ~args.dryRun) => LifecycleAt

\* the lifecycle holds on the paths on which no creation failed
HandleLifecycleNoFailure ==
    (InSplitFile /\ ~args.dryRun /\ st.err # "create") => LifecycleAt

\* the lifecycle holds up to the return of splitFile
HandleLifecycleBeforeReturn ==
    (InSplitFile /\ ~args.dryRun /\ pc # "exit") => LifecycleAt

=============================================================================
